---- MODULE Spec2Model ----
(***************************************************************************)
(* Model of python/OptiTrack.py: the Run.ReadFile row dispatcher and the   *)
(* Trackable, Frame and TrackableFrame record decoders.                    *)
(*                                                                         *)
(* A field of a csv row is a string; it is modelled as a sequence of       *)
(* one-character strings so that str.lower(), int() and float() can be     *)
(* computed on it.  A row is a sequence of fields (1-based here, 0-based   *)
(* in the source: Idx(fields, k) is the source's fields[k]).               *)
(***************************************************************************)
EXTENDS Integers, Sequences, FiniteSets, TLC

VARIABLES file, next, pc, i, trackables, frames, trackable_frames,
          coord_type, framecount, trackablecount, log, arg, ret

vars == <<file, next, pc, i, trackables, frames, trackable_frames,
          coord_type, framecount, trackablecount, log, arg, ret>>

(***************************************************************************)
(* Bounds of the model.                                                    *)
(***************************************************************************)
MaxRows == 4
MaxT == 1
MaxM == 2
MaxN == 2
MaxCut == 2

(***************************************************************************)
(* Module constants of the source.                                         *)
(***************************************************************************)
LEFT_HANDED == 0
RIGHT_HANDED == 1
TSL == 11
MSL == 3

(***************************************************************************)
(* Results of an evaluation that may raise: Ok(v) is the value v,          *)
(* Raise(e) the exception e.  Then(r, F) evaluates r, once, and goes on    *)
(* with F on its value, or stops with its exception: the statements and    *)
(* arguments of the source, in the order Python evaluates them.            *)
(***************************************************************************)
Ok(v) == [ok |-> TRUE, val |-> v]
Raise(e) == [ok |-> FALSE, err |-> e]

Then(r, F(_)) == CHOOSE y \in {IF v.ok THEN F(v.val) ELSE v : v \in {r}} : TRUE

\* The value of F on v, with v evaluated once.
With(v, F(_)) == CHOOSE y \in {F(w) : w \in {v}} : TRUE

(***************************************************************************)
(* Strings: str.lower(), int(), float().                                   *)
(***************************************************************************)
UpperChars == <<"A","B","C","D","E","F","G","H","I","J","K","L","M",
                "N","O","P","Q","R","S","T","U","V","W","X","Y","Z">>
LowerChars == <<"a","b","c","d","e","f","g","h","i","j","k","l","m",
                "n","o","p","q","r","s","t","u","v","w","x","y","z">>
DigitChars == <<"0","1","2","3","4","5","6","7","8","9">>
SpaceChars == {" ", "\t"}

LowerChar(c) ==
  IF \E k \in 1..26 : UpperChars[k] = c
  THEN LowerChars[CHOOSE k \in 1..26 : UpperChars[k] = c]
  ELSE c

Lower(s) == [k \in 1..Len(s) |-> LowerChar(s[k])]

IsDigit(c) == \E k \in 1..10 : DigitChars[k] = c
DigitVal(c) == (CHOOSE k \in 1..10 : DigitChars[k] = c) - 1
AllDigits(s) == s # <<>> /\ \A k \in 1..Len(s) : IsDigit(s[k])

RECURSIVE DigitsVal(_)
DigitsVal(s) ==
  IF s = <<>> THEN 0
  ELSE DigitsVal(SubSeq(s, 1, Len(s) - 1)) * 10 + DigitVal(s[Len(s)])

RECURSIVE Strip(_)
Strip(s) ==
  IF s = <<>> THEN s
  ELSE IF s[1] \in SpaceChars THEN Strip(Tail(s))
  ELSE IF s[Len(s)] \in SpaceChars THEN Strip(SubSeq(s, 1, Len(s) - 1))
  ELSE s

HasSign(s) == s # <<>> /\ s[1] \in {"+", "-"}
Unsigned(s) == IF HasSign(s) THEN Tail(s) ELSE s
Sign(s) == IF s # <<>> /\ s[1] = "-" THEN -1 ELSE 1

\* int(s) of a str: surrounding whitespace, an optional sign, decimal digits.
ParseInt(s) ==
  With(Strip(s), LAMBDA t :
  With(Unsigned(t), LAMBDA d :
    IF AllDigits(d) THEN Ok(Sign(t) * DigitsVal(d)) ELSE Raise("ValueError")))

\* A float is held exactly as num * 10^exp10, num without a factor 10.
RECURSIVE Normal(_, _)
Normal(num, exp10) ==
  IF num = 0 THEN [num |-> 0, exp10 |-> 0]
  ELSE IF num % 10 = 0 THEN Normal(num \div 10, exp10 + 1)
  ELSE [num |-> num, exp10 |-> exp10]

\* The place of the first character of s that is in cs, 0 if there is none.
Find(s, cs) ==
  IF \E k \in 1..Len(s) : s[k] \in cs
  THEN CHOOSE k \in 1..Len(s) : s[k] \in cs /\ \A j \in 1..(k-1) : s[j] \notin cs
  ELSE 0

\* The text before and the text after place k of s (all of s and def if k = 0).
Before(s, k) == IF k = 0 THEN s ELSE SubSeq(s, 1, k - 1)
After(s, k, def) == IF k = 0 THEN def ELSE SubSeq(s, k + 1, Len(s))

\* The decimal mant * 10^expo: digits with an optional point, an integer.
Decimal(sign, mant, expo) ==
  With(Before(mant, Find(mant, {"."})), LAMBDA ip :
  With(After(mant, Find(mant, {"."}), <<>>), LAMBDA fp :
    IF AllDigits(ip \o fp) /\ AllDigits(Unsigned(expo))
    THEN Ok(Normal(sign * DigitsVal(ip \o fp),
                   Sign(expo) * DigitsVal(Unsigned(expo)) - Len(fp)))
    ELSE Raise("ValueError")))

\* float(s) of a str: whitespace, sign, digits with an optional point and an
\* optional exponent, or one of inf, infinity, nan.
ParseFloat(s) ==
  With(Strip(s), LAMBDA t :
  With(Unsigned(t), LAMBDA u :
    IF Lower(u) \in {<<"i","n","f">>, <<"i","n","f","i","n","i","t","y">>}
    THEN Ok([special |-> "inf", sign |-> Sign(t)])
    ELSE IF Lower(u) = <<"n","a","n">>
    THEN Ok([special |-> "nan", sign |-> 1])
    ELSE Decimal(Sign(t), Before(u, Find(u, {"e", "E"})),
                 After(u, Find(u, {"e", "E"}), <<"0">>))))

(***************************************************************************)
(* Lists: fields[k] and fields[a:b] with the source's 0-based indices.     *)
(***************************************************************************)
\* fields[k]: a negative k counts from the end; out of range raises.
Idx(fields, k) ==
  LET j == IF k < 0 THEN k + Len(fields) ELSE k
  IN IF j >= 0 /\ j < Len(fields) THEN Ok(fields[j + 1]) ELSE Raise("IndexError")

\* fields[a:b] for 0 <= a <= b: clipped to the list, never raises.
Slice(fields, a, b) ==
  LET hi == IF b < Len(fields) THEN b ELSE Len(fields)
  IN IF a >= hi THEN <<>> ELSE SubSeq(fields, a + 1, hi)

\* int(fields[k]) and float(fields[k]).
IntAt(fields, k) == Then(Idx(fields, k), LAMBDA f : ParseInt(f))
FloatAt(fields, k) == Then(Idx(fields, k), LAMBDA f : ParseFloat(f))

(***************************************************************************)
(* Leaf value objects.                                                     *)
(***************************************************************************)
Position(fields) ==
  Then(FloatAt(fields, 0), LAMBDA x :
  Then(FloatAt(fields, 1), LAMBDA y :
  Then(FloatAt(fields, 2), LAMBDA z :
    Ok([x |-> x, y |-> y, z |-> z]))))

QRot(fields) ==
  Then(FloatAt(fields, 0), LAMBDA qx :
  Then(FloatAt(fields, 1), LAMBDA qy :
  Then(FloatAt(fields, 2), LAMBDA qz :
  Then(FloatAt(fields, 3), LAMBDA qw :
    Ok([qx |-> qx, qy |-> qy, qz |-> qz, qw |-> qw])))))

ERot(fields) ==
  Then(FloatAt(fields, 0), LAMBDA yaw :
  Then(FloatAt(fields, 1), LAMBDA pitch :
  Then(FloatAt(fields, 2), LAMBDA roll :
    Ok([yaw |-> yaw, pitch |-> pitch, roll |-> roll]))))

\* The source's None, which is no field of a row.
NoId == <<"None">>

Marker(id, pos) ==
  Then(Position(pos), LAMBDA p : Ok([id |-> id, pos |-> p]))

TrackableMarker(id, pos, tracked, quality) ==
  Then(Marker(id, pos), LAMBDA m :
    Ok([id |-> m.id, pos |-> m.pos, tracked |-> tracked, quality |-> quality]))

TrackableState(fields) ==
  Then(IntAt(fields, 0), LAMBDA id :
  Then(Position(Slice(fields, 1, 4)), LAMBDA pos :
  Then(QRot(Slice(fields, 4, 8)), LAMBDA qrot :
  Then(ERot(Slice(fields, 8, 11)), LAMBDA erot :
    Ok([id |-> id, pos |-> pos, qrot |-> qrot, erot |-> erot])))))

\* fields[0].lower() == tag
TagIs(fields, tag) == Then(Idx(fields, 0), LAMBDA f : Ok(Lower(f) = tag))

TagComment == <<"c","o","m","m","e","n","t">>
TagRightHanded == <<"r","i","g","h","t","h","a","n","d","e","d">>
TagInfo == <<"i","n","f","o">>
TagFrame == <<"f","r","a","m","e">>
TagTrackable == <<"t","r","a","c","k","a","b","l","e">>
SubFrameCount == <<"f","r","a","m","e","c","o","u","n","t">>
SubTrackableCount == <<"t","r","a","c","k","a","b","l","e","c","o","u","n","t">>

(***************************************************************************)
(* Trackable.__init__                                                      *)
(***************************************************************************)
\* Variant: the loop stops where the row ends.
RECURSIVE TrackableLoop_StopsAtEnd(_, _, _, _)
TrackableLoop_StopsAtEnd(fields, n, idx, markers) ==
  IF Len(markers) >= n \/ idx + MSL > Len(fields) THEN Ok(markers)
  ELSE Then(Position(Slice(fields, idx, idx + MSL)), LAMBDA p :
         TrackableLoop_StopsAtEnd(fields, n, idx + MSL, Append(markers, p)))

\* for i in range(num_markers): markers.append(Position(fields[idx:idx+MSL]))
RECURSIVE TrackableLoop(_, _, _, _)
TrackableLoop(fields, n, idx, markers) ==
  IF Len(markers) >= n THEN Ok(markers)
  ELSE Then(Position(Slice(fields, idx, idx + MSL)), LAMBDA p :
         TrackableLoop(fields, n, idx + MSL, Append(markers, p)))

Trackable(fields) ==
  Then(TagIs(fields, TagTrackable), LAMBDA isTrackable :
    IF ~isTrackable THEN Raise("Exception") ELSE
  Then(Idx(fields, 1), LAMBDA name :
  Then(IntAt(fields, 2), LAMBDA id :
  Then(IntAt(fields, 3), LAMBDA num_markers :
  Then(TrackableLoop(fields, num_markers, 4, <<>>), LAMBDA markers :
    Ok([name |-> name, id |-> id, num_markers |-> num_markers,
        markers |-> markers]))))))

(***************************************************************************)
(* Frame.__init__                                                          *)
(***************************************************************************)
\* for i in range(trackable_count): append TrackableState(fields[idx:idx+TSL])
\* The result is the list and the cursor idx after the loop.
RECURSIVE FrameStates(_, _, _, _)
FrameStates(fields, n, idx, states) ==
  IF Len(states) >= n THEN Ok([list |-> states, idx |-> idx])
  ELSE Then(TrackableState(Slice(fields, idx, idx + TSL)), LAMBDA s :
         FrameStates(fields, n, idx + TSL, Append(states, s)))

\* Variant: the cursor advances by MSL per marker.
RECURSIVE FrameMarkers_Stride3(_, _, _, _)
FrameMarkers_Stride3(fields, n, idx, markers) ==
  IF Len(markers) >= n THEN Ok(markers)
  ELSE Then(Idx(fields, idx + MSL), LAMBDA id :
       Then(Marker(id, Slice(fields, idx, idx + MSL)), LAMBDA m :
         FrameMarkers_Stride3(fields, n, idx + MSL, Append(markers, m))))

\* for i in range(marker_count): append Marker(fields[idx+MSL], fields[idx:idx+MSL])
RECURSIVE FrameMarkers(_, _, _, _)
FrameMarkers(fields, n, idx, markers) ==
  IF Len(markers) >= n THEN Ok(markers)
  ELSE Then(Idx(fields, idx + MSL), LAMBDA id :
       Then(Marker(id, Slice(fields, idx, idx + MSL)), LAMBDA m :
         FrameMarkers(fields, n, idx + 4, Append(markers, m))))

Frame(fields) ==
  Then(TagIs(fields, TagFrame), LAMBDA isFrame :
    IF ~isFrame THEN Raise("Exception") ELSE
  Then(IntAt(fields, 1), LAMBDA index :
  Then(FloatAt(fields, 2), LAMBDA timestamp :
  Then(IntAt(fields, 3), LAMBDA trackable_count :
  Then(FrameStates(fields, trackable_count, 4, <<>>), LAMBDA states :
  Then(IntAt(fields, states.idx), LAMBDA marker_count :
  Then(FrameMarkers(fields, marker_count, states.idx + 1, <<>>), LAMBDA markers :
    Ok([index |-> index, timestamp |-> timestamp,
        trackable_count |-> trackable_count,
        trackable_states |-> states.list,
        marker_count |-> marker_count, markers |-> markers]))))))))

(***************************************************************************)
(* TrackableFrame.__init__                                                 *)
(***************************************************************************)
\* Variant: the offsets of tracked and quality are added to the cursor before
\* the loop, 7, not to the cursor of the iteration.
RECURSIVE TrackableFrameMarkers_FixedBase(_, _, _, _)
TrackableFrameMarkers_FixedBase(fields, n, idx, markers) ==
  IF Len(markers) >= n THEN Ok([list |-> markers, idx |-> idx])
  ELSE Then(Idx(fields, 7 + (n - Len(markers)) * MSL + n * MSL + Len(markers)),
            LAMBDA tracked :
       Then(Idx(fields, 7 + (n - Len(markers)) * MSL + n * MSL + n + Len(markers)),
            LAMBDA quality :
       Then(TrackableMarker(NoId, Slice(fields, idx, idx + MSL), tracked, quality),
            LAMBDA m :
         TrackableFrameMarkers_FixedBase(fields, n, idx + MSL, Append(markers, m)))))

\* First loop; the iteration i is Len(markers), idx the cursor of that
\* iteration.  The result is the list and the cursor idx after the loop.
RECURSIVE TrackableFrameMarkers(_, _, _, _)
TrackableFrameMarkers(fields, n, idx, markers) ==
  IF Len(markers) >= n THEN Ok([list |-> markers, idx |-> idx])
  ELSE Then(Idx(fields, idx + (n - Len(markers)) * MSL + n * MSL + Len(markers)),
            LAMBDA tracked :
       Then(Idx(fields, idx + (n - Len(markers)) * MSL + n * MSL + n + Len(markers)),
            LAMBDA quality :
       Then(TrackableMarker(NoId, Slice(fields, idx, idx + MSL), tracked, quality),
            LAMBDA m :
         TrackableFrameMarkers(fields, n, idx + MSL, Append(markers, m)))))

\* Variant: the second loop leaves the cursor one field short.
RECURSIVE TrackableFramePtcld_ShortCursor(_, _, _, _)
TrackableFramePtcld_ShortCursor(fields, n, idx, markers) ==
  IF Len(markers) >= n THEN Ok([list |-> markers, idx |-> idx - 1])
  ELSE Then(Marker(NoId, Slice(fields, idx, idx + MSL)), LAMBDA m :
         TrackableFramePtcld_ShortCursor(fields, n, idx + MSL, Append(markers, m)))

\* Second loop: the point cloud markers.
RECURSIVE TrackableFramePtcld(_, _, _, _)
TrackableFramePtcld(fields, n, idx, markers) ==
  IF Len(markers) >= n THEN Ok([list |-> markers, idx |-> idx])
  ELSE Then(Marker(NoId, Slice(fields, idx, idx + MSL)), LAMBDA m :
         TrackableFramePtcld(fields, n, idx + MSL, Append(markers, m)))

TrackableFrame(fields) ==
  Then(IntAt(fields, 1), LAMBDA index :
  Then(FloatAt(fields, 2), LAMBDA timestamp :
  Then(Idx(fields, 3), LAMBDA name :
  Then(IntAt(fields, 4), LAMBDA id :
  Then(IntAt(fields, 5), LAMBDA last_tracked :
  Then(IntAt(fields, 6), LAMBDA marker_count :
  Then(TrackableFrameMarkers(fields, marker_count, 7, <<>>), LAMBDA markers :
  Then(TrackableFramePtcld(fields, marker_count, markers.idx, <<>>), LAMBDA ptcld :
  Then(FloatAt(fields, ptcld.idx + 2 * marker_count), LAMBDA mean_error :
    Ok([index |-> index, timestamp |-> timestamp, name |-> name, id |-> id,
        last_tracked |-> last_tracked, marker_count |-> marker_count,
        markers |-> markers.list, ptcld_markers |-> ptcld.list,
        mean_error |-> mean_error]))))))))))

(***************************************************************************)
(* Input rows.  IntTok(n) is the decimal text of n.                        *)
(***************************************************************************)
RECURSIVE NatTok(_)
NatTok(n) ==
  IF n < 10 THEN <<DigitChars[n + 1]>>
  ELSE NatTok(n \div 10) \o <<DigitChars[(n % 10) + 1]>>

IntTok(n) == IF n < 0 THEN <<"-">> \o NatTok(-n) ELSE NatTok(n)

RowComment == << <<"C","o","m","m","e","n","t">>, <<"x">> >>
RowRightHanded == << <<"R","i","g","h","t","H","a","n","d","e","d">> >>
RowLeftHanded == << <<"l","e","f","t","h","a","n","d","e","d">> >>
RowFrameCount ==
  << <<"I","n","f","o">>, <<"F","r","a","m","e","C","o","u","n","t">>, IntTok(42) >>
RowTrackableCount(n) == << TagInfo, SubTrackableCount, IntTok(n) >>
\* A declared trackable with one marker; not a TrackableFrame (index "a").
RowTrackable ==
  << TagTrackable, <<"a">>, IntTok(1), IntTok(1),
     <<"1",".","5">>, IntTok(2), IntTok(3) >>
\* Decodes both as a Trackable (name "1", id 2, no marker) and as a
\* TrackableFrame (index 1, no marker, mean_error 0.5).
RowTrackableBoth ==
  << TagTrackable, IntTok(1), IntTok(2), IntTok(0), IntTok(5), IntTok(6),
     IntTok(0), <<"0",".","5">> >>
\* Declares one marker and stops after its x.
RowTrackableShort ==
  << TagTrackable, <<"a">>, IntTok(1), IntTok(1), <<"1",".","5">> >>
\* Frame 1 at 0.5 with no trackable state and one marker (1,2,3) of id 7.
RowFrame ==
  << TagFrame, IntTok(1), <<"0",".","5">>, IntTok(0), IntTok(1),
     IntTok(1), IntTok(2), IntTok(3), IntTok(7) >>
RowEmpty == << >>
\* A trackable count that is no number.
RowBadCount == << TagInfo, SubTrackableCount, <<"x">> >>

\* Rows for the decoders: the declared counts, then fields k = 1, 2, ... holding
\* the digit (a*k + b) % 10, so that neighbouring fields differ.
Filler(n, a, b) == [k \in 1..n |-> IntTok((a * k + b) % 10)]
Count(n) == IF n < 0 THEN 0 ELSE n

FrameRow(T, M, a) ==
  << TagFrame, IntTok(1), <<"0",".","5">>, IntTok(T) >>
  \o Filler(TSL * Count(T), a, 0) \o << IntTok(M) >> \o Filler(4 * Count(M), a, 5)

TrackableFrameRow(M, a) ==
  << TagTrackable, IntTok(1), <<"0",".","5">>, <<"a">>, IntTok(2), IntTok(3),
     IntTok(M) >>
  \o Filler(8 * Count(M), a, 0) \o << <<"2",".","5">> >>

TrackableRow(N, a) ==
  << TagTrackable, <<"a">>, IntTok(1), IntTok(N) >> \o Filler(MSL * Count(N), a, 0)

\* The row without its last c fields (c = -1: with one more field).
Cut(row, c) ==
  IF c < 0 THEN Append(row, IntTok(9))
  ELSE IF c >= Len(row) THEN <<>>
  ELSE SubSeq(row, 1, Len(row) - c)

\* The row with field k (1-based; 0: none) replaced by tok.
Corrupt(row, k, tok) ==
  [j \in 1..Len(row) |-> IF j = k THEN tok ELSE row[j]]

BadToks == { <<"1",".","5">>, <<"x">> }

Variants(row) ==
  { Corrupt(Cut(row, c), k, tok) :
      c \in (-1)..MaxCut, k \in 0..Len(row), tok \in BadToks }

DecodeInputs ==
  UNION ( { Variants(FrameRow(T, M, a)) :
              T \in (-1)..MaxT, M \in (-1)..MaxM, a \in {1, 3} }
          \cup { Variants(TrackableFrameRow(M, a)) :
                   M \in (-1)..MaxM, a \in {1, 3} }
          \cup { Variants(TrackableRow(N, a)) :
                   N \in (-1)..(MaxN + 1), a \in {1, 3} } )

\* The rows the files are made of.
RowPool ==
  << RowComment, RowRightHanded, RowLeftHanded, RowFrameCount, RowTrackable,
     RowTrackableBoth, RowTrackableShort, RowFrame, RowEmpty, RowBadCount >>
  \o [n \in 1..MaxN |-> RowTrackableCount(n)]

Files == UNION {[1..n -> 1..Len(RowPool)] : n \in 0..MaxRows}

(***************************************************************************)
(* Run.__init__ and Run.ReadFile.                                          *)
(*   file  the rows of the csv file, as indices into RowPool               *)
(*   next  the row the next fp.next() returns (Len(file)+1: exhausted)     *)
(*   pc    "loop": at line 35; "block": at line 49, in the for loop;       *)
(*         "done": returned; "error": left by an exception                 *)
(*   i     the for loop's counter while pc = "block"                       *)
(*   log   for each row taken from fp, which fp.next() took it and what    *)
(*         became of it                                                    *)
(***************************************************************************)
Row(p) == RowPool[file[p]]

\* fields[0].lower(), <<>> for a row without fields.
Tag(fields) == IF fields = <<>> THEN <<>> ELSE Lower(fields[1])

\* The decoders are pure: their results on the rows of RowPool, computed once.
TrackableOf == [k \in 1..Len(RowPool) |-> Trackable(RowPool[k])]
FrameOf == [k \in 1..Len(RowPool) |-> Frame(RowPool[k])]
TrackableFrameOf == [k \in 1..Len(RowPool) |-> TrackableFrame(RowPool[k])]
TagOf == [k \in 1..Len(RowPool) |-> Tag(RowPool[k])]

Entry(by, out) == [by |-> by, out |-> out]

RunInit ==
  /\ trackables = <<>>
  /\ frames = <<>>
  /\ trackable_frames = <<>>
  /\ coord_type = RIGHT_HANDED
  /\ framecount = 0
  /\ trackablecount = 0

NotCalled == [fn |-> "none", res |-> Raise("none")]

Init ==
  /\ RunInit
  /\ file \in Files
  /\ next = 1
  /\ pc = "loop"
  /\ i = 0
  /\ log = <<>>
  /\ arg = <<>>
  /\ ret = NotCalled

\* fields = fp.next() at line 35 returned a row.
AtRow == pc = "loop" /\ next <= Len(file)

\* Variant: the exception is swallowed and the loop goes on.
Abort_Continues(by) ==
  /\ pc' = "loop"
  /\ next' = next + 1
  /\ i' = 0
  /\ log' = Append(log, Entry(by, "raised"))

\* An exception other than StopIteration leaves ReadFile.
Abort(by) ==
  /\ pc' = "error"
  /\ next' = next + 1
  /\ i' = 0
  /\ log' = Append(log, Entry(by, "raised"))

Taken(out) ==
  /\ pc' = "loop"
  /\ next' = next + 1
  /\ i' = 0
  /\ log' = Append(log, Entry("loop", out))

\* fields[0] of an empty row.
DispatchEmptyRow ==
  /\ AtRow
  /\ Row(next) = <<>>
  /\ Abort("loop")
  /\ UNCHANGED <<file, trackables, frames, trackable_frames, coord_type,
                 framecount, trackablecount, arg, ret>>

\* Variant: a comment row falls through to the last branch.
DispatchComment_FallsThrough ==
  /\ AtRow
  /\ Row(next) # <<>>
  /\ TagOf[file[next]] = TagComment
  /\ coord_type' = LEFT_HANDED
  /\ Taken("none")
  /\ UNCHANGED <<file, trackables, frames, trackable_frames,
                 framecount, trackablecount, arg, ret>>

DispatchComment ==
  /\ AtRow
  /\ Row(next) # <<>>
  /\ TagOf[file[next]] = TagComment
  /\ Taken("none")
  /\ UNCHANGED <<file, trackables, frames, trackable_frames, coord_type,
                 framecount, trackablecount, arg, ret>>

DispatchRightHanded ==
  /\ AtRow
  /\ Row(next) # <<>>
  /\ TagOf[file[next]] = TagRightHanded
  /\ coord_type' = RIGHT_HANDED
  /\ Taken("none")
  /\ UNCHANGED <<file, trackables, frames, trackable_frames,
                 framecount, trackablecount, arg, ret>>

DispatchInfo ==
  /\ AtRow
  /\ Row(next) # <<>>
  /\ TagOf[file[next]] = TagInfo
  /\ coord_type' = LEFT_HANDED
  /\ LET fields == Row(next)
         sub == Idx(fields, 1)
         n == IntAt(fields, 2)
     IN IF ~sub.ok
        THEN Abort("loop") /\ UNCHANGED <<framecount, trackablecount>>
        ELSE IF Lower(sub.val) = SubFrameCount
        THEN IF n.ok
             THEN framecount' = n.val /\ Taken("none")
                  /\ UNCHANGED trackablecount
             ELSE Abort("loop") /\ UNCHANGED <<framecount, trackablecount>>
        ELSE IF Lower(sub.val) = SubTrackableCount
        THEN IF n.ok
             THEN /\ trackablecount' = n.val
                  /\ pc' = IF n.val > 0 THEN "block" ELSE "loop"
                  /\ next' = next + 1
                  /\ i' = 0
                  /\ log' = Append(log, Entry("loop", "none"))
                  /\ UNCHANGED framecount
             ELSE Abort("loop") /\ UNCHANGED <<framecount, trackablecount>>
        ELSE Taken("none") /\ UNCHANGED <<framecount, trackablecount>>
  /\ UNCHANGED <<file, trackables, frames, trackable_frames, arg, ret>>

\* Variant: the for loop runs trackablecount + 1 times.
ReadTrackable_OneMore ==
  /\ pc = "block"
  /\ next <= Len(file)
  /\ LET t == TrackableOf[file[next]]
     IN IF t.ok
        THEN /\ trackables' = Append(trackables, t.val)
             /\ pc' = IF i + 1 < trackablecount + 1 THEN "block" ELSE "loop"
             /\ i' = IF i + 1 < trackablecount + 1 THEN i + 1 ELSE 0
             /\ next' = next + 1
             /\ log' = Append(log, Entry("block", "trackables"))
        ELSE Abort("block") /\ UNCHANGED trackables
  /\ UNCHANGED <<file, frames, trackable_frames, coord_type, framecount,
                 trackablecount, arg, ret>>

\* self.trackables.append(Trackable(fp.next())) with fp not exhausted.
ReadTrackable ==
  /\ pc = "block"
  /\ next <= Len(file)
  /\ LET t == TrackableOf[file[next]]
     IN IF t.ok
        THEN /\ trackables' = Append(trackables, t.val)
             /\ pc' = IF i + 1 < trackablecount THEN "block" ELSE "loop"
             /\ i' = IF i + 1 < trackablecount THEN i + 1 ELSE 0
             /\ next' = next + 1
             /\ log' = Append(log, Entry("block", "trackables"))
        ELSE Abort("block") /\ UNCHANGED trackables
  /\ UNCHANGED <<file, frames, trackable_frames, coord_type, framecount,
                 trackablecount, arg, ret>>

DispatchFrame ==
  /\ AtRow
  /\ Row(next) # <<>>
  /\ TagOf[file[next]] = TagFrame
  /\ coord_type' = LEFT_HANDED
  /\ LET f == FrameOf[file[next]]
     IN IF f.ok
        THEN frames' = Append(frames, f.val) /\ Taken("frames")
        ELSE Abort("loop") /\ UNCHANGED frames
  /\ UNCHANGED <<file, trackables, trackable_frames, framecount,
                 trackablecount, arg, ret>>

DispatchTrackable ==
  /\ AtRow
  /\ Row(next) # <<>>
  /\ TagOf[file[next]] = TagTrackable
  /\ coord_type' = LEFT_HANDED
  /\ LET f == TrackableFrameOf[file[next]]
     IN IF f.ok
        THEN trackable_frames' = Append(trackable_frames, f.val)
             /\ Taken("trackable_frames")
        ELSE Abort("loop") /\ UNCHANGED trackable_frames
  /\ UNCHANGED <<file, trackables, frames, framecount, trackablecount,
                 arg, ret>>

\* Variant: an unrecognized tag leaves the handedness alone.
DispatchOther_KeepsHandedness ==
  /\ AtRow
  /\ Row(next) # <<>>
  /\ TagOf[file[next]] \notin {TagComment, TagRightHanded, TagInfo, TagFrame,
                            TagTrackable}
  /\ Taken("none")
  /\ UNCHANGED <<file, trackables, frames, trackable_frames, coord_type,
                 framecount, trackablecount, arg, ret>>

DispatchOther ==
  /\ AtRow
  /\ Row(next) # <<>>
  /\ TagOf[file[next]] \notin {TagComment, TagRightHanded, TagInfo, TagFrame,
                            TagTrackable}
  /\ coord_type' = LEFT_HANDED
  /\ Taken("none")
  /\ UNCHANGED <<file, trackables, frames, trackable_frames, framecount,
                 trackablecount, arg, ret>>

\* Variant: StopIteration is not caught.
StopIteration_Uncaught ==
  /\ pc \in {"loop", "block"}
  /\ next > Len(file)
  /\ pc' = "error"
  /\ UNCHANGED <<file, next, i, trackables, frames, trackable_frames,
                 coord_type, framecount, trackablecount, log, arg, ret>>

\* Variant: only the StopIteration of line 35 is caught.
StopIteration_OnlyInLoop ==
  /\ pc \in {"loop", "block"}
  /\ next > Len(file)
  /\ pc' = IF pc = "block" THEN "error" ELSE "done"
  /\ UNCHANGED <<file, next, i, trackables, frames, trackable_frames,
                 coord_type, framecount, trackablecount, log, arg, ret>>

\* fp.next() raises StopIteration, at line 35 or at line 49; caught at 54.
StopIteration ==
  /\ pc \in {"loop", "block"}
  /\ next > Len(file)
  /\ pc' = "done"
  /\ UNCHANGED <<file, next, i, trackables, frames, trackable_frames,
                 coord_type, framecount, trackablecount, log, arg, ret>>

Next ==
  \/ DispatchEmptyRow
  \/ DispatchComment
  \/ DispatchRightHanded
  \/ DispatchInfo
  \/ ReadTrackable
  \/ DispatchFrame
  \/ DispatchTrackable
  \/ DispatchOther
  \/ StopIteration

Spec == Init /\ [][Next]_vars

(***************************************************************************)
(* The decoders on their own: the three appending statements of ReadFile   *)
(* (lines 49, 51 and 53), each applied once to a row arg.                  *)
(***************************************************************************)
DecodeInit ==
  /\ RunInit
  /\ file = <<>>
  /\ next = 1
  /\ pc = "call"
  /\ i = 0
  /\ log = <<>>
  /\ arg \in DecodeInputs
  /\ ret = NotCalled

Returned(fn, r) ==
  /\ ret' = [fn |-> fn, res |-> r]
  /\ pc' = IF r.ok THEN "returned" ELSE "error"

AppendTrackable ==
  /\ pc = "call"
  /\ LET t == Trackable(arg)
     IN /\ Returned("Trackable", t)
        /\ trackables' = IF t.ok THEN Append(trackables, t.val) ELSE trackables
  /\ UNCHANGED <<file, next, i, frames, trackable_frames, coord_type,
                 framecount, trackablecount, log, arg>>

AppendFrame ==
  /\ pc = "call"
  /\ LET f == Frame(arg)
     IN /\ Returned("Frame", f)
        /\ frames' = IF f.ok THEN Append(frames, f.val) ELSE frames
  /\ UNCHANGED <<file, next, i, trackables, trackable_frames, coord_type,
                 framecount, trackablecount, log, arg>>

AppendTrackableFrame ==
  /\ pc = "call"
  /\ LET f == TrackableFrame(arg)
     IN /\ Returned("TrackableFrame", f)
        /\ trackable_frames' =
             IF f.ok THEN Append(trackable_frames, f.val) ELSE trackable_frames
  /\ UNCHANGED <<file, next, i, trackables, frames, coord_type,
                 framecount, trackablecount, log, arg>>

DecodeNext == AppendTrackable \/ AppendFrame \/ AppendTrackableFrame

DecodeSpec == DecodeInit /\ [][DecodeNext]_vars

(***************************************************************************)
(* Properties of the decoders, under DecodeSpec.                           *)
(***************************************************************************)
\* fields[k] of the decoded row, 0-based as in the source.
Field(k) == arg[k + 1]
Fields(a, b) == SubSeq(arg, a + 1, b)
Decoded(fn) == ret.fn = fn /\ ret.res.ok

\* The counts a Frame row declares: T at field 3, M right after the T states.
FrameT == ParseInt(Field(3)).val
FrameM == ParseInt(Field(4 + 11 * FrameT)).val

\* C2: a well-formed Frame row declaring T >= 0 trackable states and M >= 0
\* markers decodes to T states, state k built from the 11 fields starting at
\* 4 + 11k, and to M markers, marker i with its position from the three fields
\* starting at 5 + 11T + 4i and its id from field 5 + 11T + 4i + 3.
C2_FrameLayout ==
  (Decoded("Frame") /\ FrameT >= 0 /\ FrameM >= 0) =>
     LET f == ret.res.val
     IN /\ Len(f.trackable_states) = FrameT
        /\ \A k \in 0..(FrameT - 1) :
             Ok(f.trackable_states[k + 1])
               = TrackableState(Fields(4 + 11 * k, 4 + 11 * k + 11))
        /\ Len(f.markers) = FrameM
        /\ \A j \in 0..(FrameM - 1) :
             LET b == 5 + 11 * FrameT + 4 * j
             IN /\ Ok(f.markers[j + 1].pos) = Position(Fields(b, b + 3))
                /\ f.markers[j + 1].id = Field(b + 3)
        /\ frames = <<f>>

C2_Witness ==
  /\ Decoded("Frame")
  /\ FrameT >= 1
  /\ FrameM >= 2
  /\ ret.res.val.markers[1] # ret.res.val.markers[2]

\* The marker count a TrackableFrame row declares, at field 6.
TFrameM == ParseInt(Field(6)).val

\* C3 as claimed: the tracked scalar of marker i is field
\* base + (M-i)*3 + M*3 + i and the quality scalar field
\* base + (M-i)*3 + M*3 + M + i, with base = 7 for every i.
C3_FixedBase ==
  (Decoded("TrackableFrame") /\ TFrameM >= 0) =>
     \A j \in 0..(TFrameM - 1) :
        LET m == ret.res.val.markers[j + 1]
            M == TFrameM
        IN /\ Ok(m.tracked) = Idx(arg, 7 + (M - j) * 3 + M * 3 + j)
           /\ Ok(m.quality) = Idx(arg, 7 + (M - j) * 3 + M * 3 + M + j)

\* C3, amended: the offsets are added to the cursor of iteration i, which is
\* 7 + 3i, so the tracked scalar of marker i is field 7 + 6M + i and the
\* quality scalar field 7 + 7M + i.
C3_IterationCursor ==
  (Decoded("TrackableFrame") /\ TFrameM >= 0) =>
     \A j \in 0..(TFrameM - 1) :
        LET m == ret.res.val.markers[j + 1]
            M == TFrameM
            cursor == 7 + 3 * j
        IN /\ m.tracked = Field(cursor + (M - j) * 3 + M * 3 + j)
           /\ m.quality = Field(cursor + (M - j) * 3 + M * 3 + M + j)
           /\ m.tracked = Field(7 + 6 * M + j)
           /\ m.quality = Field(7 + 7 * M + j)

C3_Witness ==
  /\ Decoded("TrackableFrame")
  /\ TFrameM >= 2
  /\ ret.res.val.markers[2].tracked # Field(7 + 6 * TFrameM - 2)

\* C4 as claimed: M markers, M point cloud markers, and mean_error read from
\* field base + 7M + 2M with base = 7.
C4_MeanErrorAt9M ==
  (Decoded("TrackableFrame") /\ TFrameM >= 0) =>
     /\ Len(ret.res.val.markers) = TFrameM
     /\ Len(ret.res.val.ptcld_markers) = TFrameM
     /\ Ok(ret.res.val.mean_error) = FloatAt(arg, 7 + 7 * TFrameM + 2 * TFrameM)

\* C4, amended: M markers, M point cloud markers, and mean_error read from
\* field base + 6M + 2M with base = 7: 2M fields after the cursor left by the
\* second loop.
C4_MeanErrorAt8M ==
  (Decoded("TrackableFrame") /\ TFrameM >= 0) =>
     /\ Len(ret.res.val.markers) = TFrameM
     /\ Len(ret.res.val.ptcld_markers) = TFrameM
     /\ Ok(ret.res.val.mean_error) = FloatAt(arg, 7 + 6 * TFrameM + 2 * TFrameM)
     /\ trackable_frames = <<ret.res.val>>

C4_Witness ==
  /\ Decoded("TrackableFrame")
  /\ TFrameM >= 1
  /\ FloatAt(arg, 7 + 9 * TFrameM).ok
  /\ Ok(ret.res.val.mean_error) # FloatAt(arg, 7 + 9 * TFrameM)
  /\ Len(ret.res.val.ptcld_markers) = TFrameM

\* A Trackable row that declares a marker count: field 3 is there and is an
\* integer.
DeclaresN == Len(arg) >= 4 /\ ParseInt(Field(3)).ok
TrackableN == ParseInt(Field(3)).val

\* C7: decoding a Trackable row that declares N >= 0 markers and has fewer
\* than 4 + 3N fields raises and appends nothing to trackables; no Trackable
\* is returned with fewer than N markers.
C7_TruncatedTrackableRaises ==
  (ret.fn = "Trackable" /\ DeclaresN /\ TrackableN >= 0) =>
     /\ Len(arg) < 4 + 3 * TrackableN => (~ret.res.ok /\ trackables = <<>>)
     /\ ret.res.ok => Len(ret.res.val.markers) >= TrackableN

C7_Witness ==
  /\ ret.fn = "Trackable"
  /\ DeclaresN
  /\ TrackableN >= 2
  /\ Len(arg) < 4 + 3 * TrackableN
  /\ Len(arg) >= 4 + 3
  /\ Position(Fields(4, 7)).ok
  /\ TagIs(arg, TagTrackable) = Ok(TRUE)
  /\ IntAt(arg, 2).ok
  /\ ret.res = Raise("IndexError")

(***************************************************************************)
(* Properties of Run.ReadFile, under Spec.                                 *)
(***************************************************************************)
\* The row is an info/trackablecount row with an integer value.
IsCount(fields) ==
  /\ Len(fields) >= 3
  /\ Tag(fields) = TagInfo
  /\ Lower(fields[2]) = SubTrackableCount
  /\ ParseInt(fields[3]).ok

CountRowOf == [k \in 1..Len(RowPool) |-> IsCount(RowPool[k])]
CountOf ==
  [k \in 1..Len(RowPool) |->
     IF CountRowOf[k] THEN ParseInt(RowPool[k][3]).val ELSE 0]

\* Row p is an info/trackablecount row with an integer value, CountAt(p).
IsCountRow(p) == CountRowOf[file[p]]
CountAt(p) == CountOf[file[p]]

\* The record that row k of RowPool appends to the list named out.
DecodeAs(out, k) ==
  CASE out = "trackables" -> TrackableOf[k].val
    [] out = "frames" -> FrameOf[k].val
    [] out = "trackable_frames" -> TrackableFrameOf[k].val

\* What the first p rows of the file f appended to the list named out, given
\* the log l.
RECURSIVE AppendedBy(_, _, _, _)
AppendedBy(f, l, out, p) ==
  IF p = 0 THEN <<>>
  ELSE IF l[p].out = out
  THEN Append(AppendedBy(f, l, out, p - 1), DecodeAs(out, f[p]))
  ELSE AppendedBy(f, l, out, p - 1)

Appended(out, p) == AppendedBy(file, log, out, p)

ListsAreAppended ==
  /\ trackables = Appended("trackables", Len(log))
  /\ frames = Appended("frames", Len(log))
  /\ trackable_frames = Appended("trackable_frames", Len(log))

\* C1: a trackablecount row with value N > 0 followed by at least N valid
\* trackable rows appends those N rows, in order, as Trackables and as nothing
\* else, and the row after the N-th one is dispatched by the main loop.
C1_BlockTakesExactlyN ==
  \A p \in 1..Len(log) :
     ( /\ log[p].by = "loop"
       /\ IsCountRow(p)
       /\ CountAt(p) > 0
       /\ p + CountAt(p) <= Len(file)
       /\ \A k \in 1..CountAt(p) : TrackableOf[file[p + k]].ok )
     => LET n == CountAt(p) IN
        /\ \A k \in 1..n :
             p + k <= Len(log) => log[p + k] = Entry("block", "trackables")
        /\ Len(log) = p + n => pc \in {"loop", "done"}
        /\ Len(log) > p + n => log[p + n + 1].by = "loop"
        /\ Len(log) >= p + n =>
             /\ Len(Appended("trackables", p + n))
                  = Len(Appended("trackables", p)) + n
             /\ Appended("trackable_frames", p + n)
                  = Appended("trackable_frames", p)
        /\ ListsAreAppended

C1_Witness ==
  /\ Len(log) = 4
  /\ IsCountRow(1)
  /\ CountAt(1) = 2
  /\ Len(trackables) = 2
  /\ trackables[1] # trackables[2]
  /\ TagOf[file[4]] = TagTrackable
  /\ Len(trackable_frames) = 1
  /\ pc = "done"

\* The main loop raises on the row, row k of RowPool.
LoopFails(k) ==
  LET fields == RowPool[k]
  IN IF fields = <<>> THEN TRUE
     ELSE IF Tag(fields) = TagFrame THEN ~FrameOf[k].ok
     ELSE IF Tag(fields) = TagTrackable THEN ~TrackableFrameOf[k].ok
     ELSE IF Tag(fields) = TagInfo
     THEN \/ Len(fields) < 2
          \/ /\ Lower(fields[2]) \in {SubFrameCount, SubTrackableCount}
             /\ ~IntAt(fields, 2).ok
     ELSE FALSE

LoopFailsOf == [k \in 1..Len(RowPool) |-> LoopFails(k)]

\* The code raises on row p, given how the row was taken from fp.
RowFails(p) ==
  IF log[p].by = "block" THEN ~TrackableOf[file[p]].ok ELSE LoopFailsOf[file[p]]

\* C5: the first row that fails to decode ends the load with an error: it is
\* the last row taken from the file, and the lists hold, in order, what the
\* rows before it appended.
C5_FirstErrorAborts ==
  \A p \in 1..Len(log) :
     RowFails(p) => /\ pc = "error"
                    /\ p = Len(log)
                    /\ log[p].out = "raised"
                    /\ trackables = Appended("trackables", p - 1)
                    /\ frames = Appended("frames", p - 1)
                    /\ trackable_frames = Appended("trackable_frames", p - 1)

C5_Witness ==
  /\ pc = "error"
  /\ Len(log) = 3
  /\ Len(log) < Len(file)
  /\ log[3] = Entry("block", "raised")
  /\ Len(trackables) = 1

\* The handedness decided by the first p rows of the file f, given the log l.
RECURSIVE HandednessBy(_, _, _)
HandednessBy(f, l, p) ==
  IF p = 0 THEN RIGHT_HANDED
  ELSE IF l[p].by = "loop" /\ RowPool[f[p]] # <<>> /\ TagOf[f[p]] # TagComment
  THEN IF TagOf[f[p]] = TagRightHanded THEN RIGHT_HANDED ELSE LEFT_HANDED
  ELSE HandednessBy(f, l, p - 1)

Handedness(p) == HandednessBy(file, log, p)

\* C6: the handedness is the one of the most recent dispatched row that is no
\* comment: RightHanded for a "righthanded" row, LeftHanded for any other, and
\* RightHanded when there is no such row.
C6_HandednessByLastRow == coord_type = Handedness(Len(log))

C6_Witness ==
  /\ Len(log) = 4
  /\ \A p \in 1..4 : log[p].by = "loop"
  /\ TagOf[file[1]] \notin {TagComment, TagRightHanded, TagInfo, TagFrame, TagTrackable}
  /\ TagOf[file[2]] = TagRightHanded
  /\ TagOf[file[3]] = TagFrame
  /\ TagOf[file[4]] = TagComment
  /\ coord_type = LEFT_HANDED

\* C9: dispatching a comment row changes no field of the Run.
C9_CommentChangesNothing ==
  [][(AtRow /\ TagOf[file[next]] = TagComment)
       => UNCHANGED <<trackables, frames, trackable_frames, coord_type,
                      framecount, trackablecount>>]_vars

C9_Witness ==
  /\ Len(log) >= 3
  /\ log[Len(log)].by = "loop"
  /\ TagOf[file[Len(log)]] = TagComment
  /\ Len(Row(Len(log))) > 1
  /\ coord_type = LEFT_HANDED
  /\ framecount = 42
  /\ frames # <<>>

\* C10: when the file ends inside the block of a trackablecount row with value
\* N, after k < N further valid rows, the load returns without an error, with
\* trackablecount = N and only those k Trackables appended by the block.
C10_ShortBlockEndsSilently ==
  \A p \in 1..Len(log) :
     ( /\ log[p].by = "loop"
       /\ IsCountRow(p)
       /\ Len(file) < p + CountAt(p)
       /\ \A q \in (p + 1)..Len(file) : TrackableOf[file[q]].ok
       /\ pc \notin {"loop", "block"} )
     => /\ pc = "done"
        /\ trackablecount = CountAt(p)
        /\ Len(log) = Len(file)
        /\ \A q \in (p + 1)..Len(file) : log[q] = Entry("block", "trackables")
        /\ trackables = Appended("trackables", Len(file))
        /\ Len(trackables) = Len(Appended("trackables", p)) + (Len(file) - p)

C10_Witness ==
  /\ pc = "done"
  /\ Len(file) = 3
  /\ IsCountRow(2)
  /\ CountAt(2) = 2
  /\ log[2].by = "loop"
  /\ trackablecount = 2
  /\ Len(trackables) = 1

(***************************************************************************)
(* Termination: ReadFile is sequential code, it keeps running until it     *)
(* returns or raises.                                                      *)
(***************************************************************************)
MaxLiveRows == 3

LiveInit ==
  /\ Init
  /\ Len(file) <= MaxLiveRows

LiveSpec == LiveInit /\ [][Next]_vars /\ WF_vars(Next)

\* The file f from row p on, read by the main loop, raises nowhere.
RECURSIVE WellFormedFrom(_, _)
WellFormedFrom(f, p) ==
  IF p > Len(f) THEN TRUE
  ELSE LET n == CountOf[f[p]]
           last == IF p + n < Len(f) THEN p + n ELSE Len(f)
       IN /\ ~LoopFailsOf[f[p]]
          /\ \A q \in (p + 1)..last : TrackableOf[f[q]].ok
          /\ WellFormedFrom(f, last + 1)

WellFormedFile == WellFormedFrom(file, 1)

AllRowsTaken ==
  /\ pc = "done"
  /\ next = Len(file) + 1
  /\ Len(log) = Len(file)
  /\ \A p \in 1..Len(file) : log[p].by \in {"loop", "block"}
  /\ ListsAreAppended

\* C8: on a file of well-formed rows ReadFile returns without an error, after
\* taking every row once, in order, either in the main loop or in a block.
C8_WellFormedFileIsReadToTheEnd ==
  /\ [](WellFormedFile => pc # "error")
  /\ WellFormedFile ~> AllRowsTaken

C8_Witness ==
  /\ WellFormedFile
  /\ AllRowsTaken
  /\ Len(file) = 3
  /\ log[2].by = "block"
  /\ log[3].by = "loop"
  /\ Len(frames) = 1

====
